---- MODULE Spec2Model ----
(***************************************************************************)
(* hash-gui (src/src/main.rs): the App state machine (update and           *)
(* subscription) and the per-file hash pipeline App::hash: the async       *)
(* prologue, the reader stage, the hasher stage, the hand-off queue        *)
(* between them and the output channel towards the runtime.                *)
(***************************************************************************)
EXTENDS Integers, Sequences, FiniteSets, TLC

VARIABLES
    file_entries,   \* App.file_entries: Vec<FileEntry>
    fs,             \* the file system the pathnames resolve in
    runs,           \* the hash pipelines started so far, in start order
    inbox,          \* Message::CalculateProgress values in flight to update
    batch,          \* the messages at the head of inbox that the running
                    \* batch of updates holds; -1 when the streams are the
                    \* ones subscription() asks for
    seen            \* history: for each pathname, what its entry met since
                    \* it was added to file_entries

vars == <<file_entries, fs, runs, inbox, batch, seen>>

(***************************************************************************)
(* Program constants.                                                      *)
(***************************************************************************)
ChunkSize == 1048576
\* faulty variant: a hand-off queue of one more buffer
QueueCapEleven == 10 + 1

QueueCap == 10
OutputBuffer == 3
BufCap == 8388608

(***************************************************************************)
(* Bounds of the model.                                                    *)
(***************************************************************************)
MaxRuns == 2
MaxInbox == 2
SmallLen == 1
PipeChunks == 13
FairChunks == 12
LinkLen == 7
LateChunks == 26
StaleRuns == 4

Paths == {"a", "b", "d"}

Min(x, y) == IF x <= y THEN x ELSE y

(***************************************************************************)
(* FileEntryState and FileEntry.                                           *)
(***************************************************************************)
Idle == [tag |-> "Idle"]
Calculating(progress) == [tag |-> "Calculating", progress |-> progress]
Finished(hash) == [tag |-> "Finished", hash |-> hash]
FileEntry(pathname, state) == [pathname |-> pathname, state |-> state]

(***************************************************************************)
(* A progress value is the f32 of ((sum as f64) / (filesize as f64) *       *)
(* 100.0) as f32.  A finite f32 that is not negative is the record          *)
(* [m, e] of value m / 2^e, with m = 0 for zero and 2^23 <= m < 2^24        *)
(* otherwise; m = -1 is the NaN of 0/0.  The expression rounds three        *)
(* times, each time to nearest and ties to even: the f64 division and the   *)
(* f64 multiplication keep 53 bits, the cast keeps 24.  A 53-bit            *)
(* significand is held in three limbs, hi * 2^48 + mid * 2^24 + lo, so      *)
(* that no intermediate value passes 2^31.                                  *)
(***************************************************************************)
F32Zero == [m |-> 0, e |-> 0]
F32NaN == [m |-> -1, e |-> 0]
F32Hundred == [m |-> 100 * 2^17, e |-> 17]

\* the element of a one-element set
Only(S) == CHOOSE v \in S : TRUE

RECURSIVE F64Lead(_, _, _)
\* the position z of the leading bit of r/den (0 < r < den): 2^z * r/den is
\* 1 + rest/den
F64Lead(r, den, z) ==
    IF 2 * r >= den THEN [z |-> z + 1, r |-> 2 * r - den]
    ELSE F64Lead(2 * r, den, z + 1)

RECURSIVE DivBits(_, _, _, _)
\* the next n bits of r/den appended to q, and the remainder: long division
\* of r < den, four bits at a time (n is 4 or 24)
DivBits(q, r, den, n) ==
    IF n = 0 THEN [q |-> q, r |-> r]
    ELSE DivBits(16 * q + (16 * r) \div den, (16 * r) % den, den, n - 4)

\* (sum as f64) / (filesize as f64) for 0 < sum <= filesize: the
\* significand hi * 2^48 + mid * 2^24 + lo of 53 bits and the exponent z,
\* of value significand / 2^(52 + z)
F64Div(sum, filesize) ==
    IF sum = filesize THEN [hi |-> 16, mid |-> 0, lo |-> 0, z |-> 0]
    ELSE Only({ Only({ Only({ Only({
           LET up == 2 * c.r > filesize
                     \/ (2 * c.r = filesize /\ c.q % 2 = 1)
               lo == IF up THEN c.q + 1 ELSE c.q
               mid == IF lo = 2^24 THEN b.q + 1 ELSE b.q
               hi == IF mid = 2^24 THEN a.q + 1 ELSE a.q
           IN  IF hi = 32 THEN [hi |-> 16, mid |-> 0, lo |-> 0, z |-> l.z - 1]
               ELSE [hi |-> hi, mid |-> mid % 2^24, lo |-> lo % 2^24,
                     z |-> l.z]
           : c \in {DivBits(0, b.r, filesize, 24)} })
           : b \in {DivBits(0, a.r, filesize, 24)} })
           : a \in {DivBits(1, l.r, filesize, 4)} })
           : l \in {F64Lead(sum, filesize, 0)} })

\* x * 100.0 in f64, then the cast to f32: the product of 59 or 60 bits is
\* ph * 2^48 + p1 * 2^24 + p0; d of its bits are dropped to keep 53, of
\* which the cast keeps the top 24 and drops the other 29
F64Times100AsF32(x) ==
    LET t0 == x.lo * 100
        p0 == t0 % 2^24
        t1 == x.mid * 100 + t0 \div 2^24
        p1 == t1 % 2^24
        ph == x.hi * 100 + t1 \div 2^24
        d == IF ph >= 2^11 THEN 7 ELSE 6
        \* the multiplication: 53 bits as top * 2^29 + rest
        dropped == p0 % 2^d
        kept == p0 \div 2^d
        up64 == dropped > 2^(d - 1) \/ (dropped = 2^(d - 1) /\ kept % 2 = 1)
        rest0 == (p1 % 2^(5 + d)) * 2^(24 - d) + kept
                 + (IF up64 THEN 1 ELSE 0)
        top0 == ph * 2^(19 - d) + p1 \div 2^(5 + d)
                + (IF rest0 = 2^29 THEN 1 ELSE 0)
        carry64 == top0 = 2^24
        top == IF carry64 THEN 2^23 ELSE top0
        rest == rest0 % 2^29
        e64 == 23 + x.z - d - (IF carry64 THEN 1 ELSE 0)
        \* the cast
        up32 == rest > 2^28 \/ (rest = 2^28 /\ top % 2 = 1)
        m == IF up32 THEN top + 1 ELSE top
    IN  IF m = 2^24 THEN [m |-> 2^23, e |-> e64 - 1]
        ELSE [m |-> m, e |-> e64]

Percent(sum, filesize) ==
    IF filesize = 0 THEN F32NaN
    ELSE IF sum = 0 THEN F32Zero
    ELSE Only({ F64Times100AsF32(x) : x \in {F64Div(sum, filesize)} })

\* faulty variant: the first event reports the work as done
ProgressHundred == F32Hundred

ProgressZero == F32Zero
\* faulty variant: the share of the bytes still to come
ProgressRemaining(sum, filesize) == Percent(filesize - sum, filesize)

Progress(sum, filesize) == Percent(sum, filesize)
IsNaN(p) == p.m < 0

\* p <= q for two values that are not NaN
ProgressLeq(p, q) ==
    \/ p.m = 0
    \/ /\ q.m # 0
       /\ \/ p.e > q.e
          \/ p.e = q.e /\ p.m <= q.m

InRange(p) == ~IsNaN(p) /\ ProgressLeq(p, F32Hundred)

(***************************************************************************)
(* Sha256, abstracted as a collision-free function of the byte string fed  *)
(* to it: the hasher state is the list of byte ranges folded so far, with  *)
(* adjacent ranges of one content joined.  A range is named by the         *)
(* pathname whose first content it is part of, or by Zeros for the bytes   *)
(* an extension of a file added.                                           *)
(***************************************************************************)
Sha256New == <<>>

Zeros == "zeros"

AppendRange(hasher, src, lo, hi) ==
    LET n == Len(hasher)
    IN  IF lo >= hi THEN hasher
        ELSE IF n > 0 /\ hasher[n].src = src /\ hasher[n].hi = lo
             THEN [hasher EXCEPT ![n].hi = hi]
             ELSE Append(hasher, [src |-> src, lo |-> lo, hi |-> hi])

\* data holds len bytes read at offset off: the first kept of them are
\* bytes of the first content of src, the others bytes of an extension
DigestUpdate(hasher, data) ==
    AppendRange(AppendRange(hasher, data.src, data.off, data.off + data.kept),
                Zeros, data.off + data.kept, data.off + data.len)

HashHex(hasher) == [sha256 |-> hasher]

\* the reference digest of the whole content a pathname opens
ContentDigest(pathname) ==
    HashHex(AppendRange(AppendRange(Sha256New, pathname, 0, fs[pathname].kept),
                        Zeros, fs[pathname].kept, fs[pathname].len))

(***************************************************************************)
(* The file system.  kind "file" is a regular file, "link" a symbolic      *)
(* link to a regular file, "dir" a directory.  len is the byte length of   *)
(* the content File::open reads, meta the length symlink_metadata reports, *)
(* kept the length of the prefix of the content that still holds the bytes *)
(* the file had at first.                                                  *)
(***************************************************************************)
RegularFile(n) == [kind |-> "file", len |-> n, meta |-> n, kept |-> n]
SymLink(n) == [kind |-> "link", len |-> n, meta |-> LinkLen, kept |-> n]
Directory == [kind |-> "dir", len |-> 0, meta |-> 0, kept |-> 0]

is_file(pathname) == fs[pathname].kind \in {"file", "link"}

(***************************************************************************)
(* One run of App::hash.  pc is the position of the async block, rpc and   *)
(* hpc those of the reader and hasher stages; alive says the runtime still *)
(* holds the stream (the receiver of the output channel).  output is the   *)
(* message queue of the output channel, msg the message a try_send that    *)
(* parks the sender has counted and not yet pushed, parked says that the   *)
(* sender is parked (its next try_send is refused), popped that the        *)
(* receiver has popped a message and may not have discounted it yet.       *)
(* ahead is the                                                            *)
(* file offset up to which the BufReader has taken the content, akept the  *)
(* value kept had for the file when the BufReader last filled; got counts  *)
(* the bytes the reads of the running read_exact gave so far, gkept those  *)
(* of them that are first content.  sent, applied,                         *)
(* lateReads, lateFolds and fin are history: the buffers tx.send accepted, *)
(* the last state update applied from this run, the chunks read and folded *)
(* after the receiver was dropped, and the outcome of the final try_send.  *)
(***************************************************************************)
NoBuf == [src |-> "", off |-> 0, len |-> 0, kept |-> 0]

NewRun(pathname) ==
    [pathname |-> pathname, alive |-> TRUE, pc |-> "open", filesize |-> 0,
     output |-> <<>>, msg |-> <<>>, parked |-> FALSE, popped |-> FALSE,
     err |-> FALSE, queue |-> <<>>,
     rpc |-> "idle", remain |-> 0, buf |-> NoBuf, ahead |-> 0,
     akept |-> 0, got |-> 0, gkept |-> 0,
     hpc |-> "idle", hasher |-> Sha256New, sum |-> 0, data |-> NoBuf,
     sent |-> <<>>, applied |-> Idle, lateReads |-> 0, lateFolds |-> 0,
     fin |-> "none"]

\* faulty variant: the reader never learns that the hasher dropped rx
HasherExitedNever == {}

ReaderExited == {"finish", "error", "disconnected"}
HasherExited == {"final", "final_park", "finish", "disconnected"}

(***************************************************************************)
(* App::subscription: the pathnames a hash stream is requested for, and    *)
(* the runtime's tracking of them by id (the pathname).                    *)
(***************************************************************************)
NeedsHash(data) == data.state.tag \in {"Idle", "Calculating"}

subscription(entries) ==
    LET sel == SelectSeq(entries, NeedsHash)
    IN  [k \in 1..Len(sel) |-> sel[k].pathname]

Requested(entries) ==
    {subscription(entries)[k] : k \in 1..Len(subscription(entries))}

AlivePaths(rs) == {rs[j].pathname : j \in {k \in 1..Len(rs) : rs[k].alive}}

\* the drop of the stream drops the receiver, which closes the channel,
\* unparks the sender and drains the queue
DropStream(r) ==
    [r EXCEPT !.alive = FALSE, !.output = <<>>, !.parked = FALSE,
              !.popped = FALSE, !.err = FALSE]

DropStreams(rs, req) ==
    [j \in 1..Len(rs) |->
        IF rs[j].alive /\ rs[j].pathname \notin req
        THEN DropStream(rs[j]) ELSE rs[j]]

RECURSIVE StartStreams(_, _, _)
StartStreams(rs, sub, k) ==
    IF k > Len(sub) THEN rs
    ELSE IF sub[k] \notin AlivePaths(rs)
         THEN StartStreams(Append(rs, NewRun(sub[k])), sub, k + 1)
         ELSE StartStreams(rs, sub, k + 1)

Track(entries, rs) ==
    StartStreams(DropStreams(rs, Requested(entries)), subscription(entries), 1)

(***************************************************************************)
(* App::update.                                                            *)
(***************************************************************************)
Tracked(entries, pathname) ==
    \E k \in 1..Len(entries) : entries[k].pathname = pathname

FindEntry(entries, pathname) ==
    LET hits == {k \in 1..Len(entries) : entries[k].pathname = pathname}
    IN  IF hits = {} THEN 0
        ELSE CHOOSE k \in hits : \A j \in hits : k <= j

\* faulty variant: the event goes to the first entry, whatever its pathname
ApplyProgressFirst(entries, result) ==
    IF entries = <<>> THEN entries
    ELSE [entries EXCEPT ![1].state = result.state]

\* faulty variant: an event for an untracked pathname adds an entry
ApplyProgressUpsert(entries, result) ==
    LET k == FindEntry(entries, result.pathname)
    IN  IF k = 0 THEN Append(entries, result)
        ELSE [entries EXCEPT ![k].state = result.state]

ApplyProgress(entries, result) ==
    LET k == FindEntry(entries, result.pathname)
    IN  IF k = 0 THEN entries
        ELSE [entries EXCEPT ![k].state = result.state]

AcceptDrop(entries, pathname) ==
    ~Tracked(entries, pathname) /\ is_file(pathname)

(***************************************************************************)
(* The runtime applies the messages it holds one after the other, each by  *)
(* one call of update, and asks subscription() once after the last of     *)
(* them.  batch counts the stream events the running batch still holds:    *)
(* they were in flight when its first update ran.  A batch that leaves     *)
(* the streams as subscription() asks for them is over.                    *)
(***************************************************************************)
Held == IF batch = -1 THEN Len(inbox) ELSE batch

AfterUpdate(entries, rs, held) ==
    IF Track(entries, rs) = rs THEN -1 ELSE held

\* History kept beside the program's state: finished counts the Finished
\* events update applied to the entry of a pathname since the entry was
\* added, failed says that a run of App::hash for the pathname returned Err
\* from open or symlink_metadata since then.
NoneSeen == [p \in Paths |-> [finished |-> 0, failed |-> FALSE]]

SeenFinished(entries, result) ==
    IF result.state.tag = "Finished" /\ Tracked(entries, result.pathname)
    THEN [seen EXCEPT ![result.pathname].finished = @ + 1]
    ELSE seen

CalculateProgress ==
    /\ Held > 0
    /\ LET m == Head(inbox)
           noted == IF m.ok
                    THEN [runs EXCEPT ![m.run].applied = m.entry.state]
                    ELSE runs
       IN  /\ file_entries' = IF m.ok
                              THEN ApplyProgress(file_entries, m.entry)
                              ELSE file_entries
           /\ runs' = noted
           /\ seen' = IF m.ok THEN SeenFinished(file_entries, m.entry)
                      ELSE seen
    /\ inbox' = Tail(inbox)
    /\ batch' = AfterUpdate(file_entries', runs', Held - 1)
    /\ UNCHANGED fs

FileDropped(pathname) ==
    /\ file_entries' = IF AcceptDrop(file_entries, pathname)
                       THEN Append(file_entries, FileEntry(pathname, Idle))
                       ELSE file_entries
    /\ batch' = AfterUpdate(file_entries', runs, Held)
    /\ UNCHANGED <<fs, runs, inbox, seen>>

ClearHistory ==
    /\ IF file_entries = <<>>
       THEN \* iced::exit() is a Task handed back to the runtime: update
            \* changes nothing, and the process ends some time later,
            \* which is a behaviour that takes no further step
            UNCHANGED <<file_entries, batch, seen>>
       ELSE /\ file_entries' = <<>>
            /\ batch' = AfterUpdate(file_entries', runs, Held)
            /\ seen' = NoneSeen
    /\ UNCHANGED <<fs, runs, inbox>>

\* the runtime, after the last update of a batch: subscription() and the
\* tracking of the streams it asks for
TrackSubscription ==
    /\ batch # -1
    /\ runs' = Track(file_entries, runs)
    /\ batch' = -1
    /\ UNCHANGED <<file_entries, fs, inbox, seen>>

(***************************************************************************)
(* App::title: the fold over file_entries from 0f32, and the text made of  *)
(* its result.  The text is "Hash GUI" (shown FALSE) for 0, else the value *)
(* formatted with {:.0}, which rounds to the nearest integer and a tie to  *)
(* the even one, followed by "% - Hash GUI"; NaN is given percent -1.      *)
(***************************************************************************)
F32Min(p, q) ==
    IF IsNaN(p) THEN q
    ELSE IF IsNaN(q) THEN p
    ELSE IF ProgressLeq(p, q) THEN p ELSE q

RECURSIVE TitleFold(_, _, _)
TitleFold(entries, k, progress_min) ==
    IF k > Len(entries) THEN progress_min
    ELSE IF entries[k].state.tag = "Calculating"
         THEN TitleFold(entries, k + 1,
                        IF progress_min = F32Zero
                        THEN entries[k].state.progress
                        ELSE F32Min(progress_min, entries[k].state.progress))
         ELSE TitleFold(entries, k + 1, progress_min)

FormatPercent(p) ==
    IF IsNaN(p) THEN -1
    ELSE IF p.e >= 25 THEN 0
    ELSE LET q == p.m \div 2^(p.e)
             r == p.m % 2^(p.e)
         IN  IF 2 * r > 2^(p.e) \/ (2 * r = 2^(p.e) /\ q % 2 = 1)
             THEN q + 1 ELSE q

title(entries) ==
    LET progress == TitleFold(entries, 1, F32Zero)
    IN  IF progress = F32Zero THEN [shown |-> FALSE, percent |-> 0]
        ELSE [shown |-> TRUE, percent |-> FormatPercent(progress)]

(***************************************************************************)
(* The stream side of App::hash: the runtime polls the stream and forwards *)
(* each item as Message::CalculateProgress.  The receiver of the output    *)
(* channel (futures mpsc, Receiver::next_message) pops a message, unparks  *)
(* the sender when its handle is in the parked queue, and only then        *)
(* discounts the message (dec_num_messages).  Only the count of a later    *)
(* try_send sees whether the discount was made, so it is decided there.    *)
(***************************************************************************)
StreamNext(i) ==
    /\ runs[i].alive
    /\ runs[i].output # <<>>
    /\ Len(inbox) < MaxInbox
    /\ inbox' = Append(inbox, [run |-> i, ok |-> TRUE,
                                entry |-> Head(runs[i].output)])
    /\ runs' = [runs EXCEPT ![i].output = Tail(@),
                            ![i].parked = FALSE,
                            ![i].popped = TRUE]
    /\ UNCHANGED <<file_entries, fs, batch, seen>>

StreamErr(i) ==
    /\ runs[i].alive
    /\ runs[i].err
    /\ Len(inbox) < MaxInbox
    /\ inbox' = Append(inbox, [run |-> i, ok |-> FALSE,
                                entry |-> FileEntry(runs[i].pathname, Idle)])
    /\ runs' = [runs EXCEPT ![i].err = FALSE]
    /\ UNCHANGED <<file_entries, fs, batch, seen>>

(***************************************************************************)
(* futures mpsc::Sender::try_send with one sender.  A parked sender is     *)
(* refused (Full).  Otherwise the send counts its message                  *)
(* (inc_num_messages), which fails when the receiver is gone; when the     *)
(* count passes the buffer the sender parks itself: it marks itself parked *)
(* and pushes its handle to the parked queue, and then pushes the message. *)
(* The receiver runs beside it: a message it pops before the handle is     *)
(* pushed unparks nobody, so the sender can stay parked with room in the   *)
(* queue, and a message popped and not yet discounted still counts         *)
(* (counted).                                                              *)
(***************************************************************************)
\* whether the message the receiver popped last is still counted
Counted(r) == IF r.popped THEN BOOLEAN ELSE {FALSE}

\* num_messages
NumMessages(r, counted) == Len(r.output) + (IF counted THEN 1 ELSE 0)

\* faulty variant: a dropped receiver is not noticed
TrySendNoDisconnect(r, counted) ==
    IF r.parked THEN "full"
    ELSE IF NumMessages(r, counted) + 1 > OutputBuffer THEN "park"
    ELSE "ok"

TrySend(r, counted) ==
    IF ~r.alive THEN "disconnected"
    ELSE IF r.parked THEN "full"
    ELSE IF NumMessages(r, counted) + 1 > OutputBuffer THEN "park"
    ELSE "ok"

\* the rest of a try_send that parks: park(), then the push of the message,
\* which nobody receives when the receiver is gone
Park(r, next) ==
    [r EXCEPT !.output = IF r.alive THEN @ \o r.msg ELSE @,
              !.parked = r.alive,
              !.msg = <<>>,
              !.hpc = next]

(***************************************************************************)
(* The reader stage: the size of the next read and the loop test.          *)
(***************************************************************************)
\* faulty variant: the read size without the 1 MiB ceiling
ReadSizeNoCeiling(remain) == remain

ReadSize(remain) == Min(ChunkSize, remain)

\* faulty variant: the loop body runs before the first test
LoopTestDoWhile(remain) == "read"

LoopTest(remain) == IF 0 < remain THEN "read" ELSE "finish"

(***************************************************************************)
(* App::hash, the async block: open and metadata, then the first send and  *)
(* the two spawn_blocking calls.                                           *)
(***************************************************************************)
HashOpen(i) ==
    /\ runs[i].alive
    /\ runs[i].pc = "open"
    /\ \E outcome \in {"ok", "open_err", "metadata_err"} :
          /\ runs' = IF outcome = "ok"
                     THEN [runs EXCEPT
                              ![i].pc = "send",
                              ![i].filesize = fs[runs[i].pathname].meta]
                     ELSE [runs EXCEPT ![i].pc = "failed", ![i].err = TRUE]
          /\ seen' = IF outcome # "ok"
                        /\ Tracked(file_entries, runs[i].pathname)
                     THEN [seen EXCEPT ![runs[i].pathname].failed = TRUE]
                     ELSE seen
    /\ UNCHANGED <<file_entries, fs, inbox, batch>>

HashFirstSend(i) ==
    /\ runs[i].pc = "send"
    /\ runs' = IF runs[i].alive
               THEN [runs EXCEPT
                        ![i].output = Append(@, FileEntry(runs[i].pathname,
                                                 Calculating(ProgressZero))),
                        ![i].pc = "spawned",
                        ![i].remain = runs[i].filesize,
                        ![i].rpc = LoopTest(runs[i].filesize),
                        ![i].hpc = "recv"]
               ELSE [runs EXCEPT ![i].pc = "failed"]
    /\ UNCHANGED <<file_entries, fs, inbox, batch, seen>>


\* read_exact on the BufReader is a loop of reads, one per step.  A read
\* takes bytes from the BufReader's buffer when it holds any; when it holds
\* none the read first fills it by one read of the file at offset ahead, of
\* up to BufCap bytes: that read can fail, and it returns nothing at or
\* past the end of the file, which read_exact reports as UnexpectedEof.
\* The chunk is complete when the reads gave read_size bytes, which for a
\* read_size of 0 is at once and without a read.
KeptIn(lo, n, bound) == Min(n, IF bound > lo THEN bound - lo ELSE 0)

ReaderRead(i) ==
    LET r == runs[i]
        read_size == ReadSize(r.remain)
        off == r.filesize - r.remain
        pos == off + r.got
        len == fs[r.pathname].len
        empty == r.got < read_size /\ pos >= r.ahead
        filled == IF len > r.ahead THEN Min(len - r.ahead, BufCap) ELSE 0
        ahead == IF empty THEN r.ahead + filled ELSE r.ahead
        akept == IF empty THEN fs[r.pathname].kept ELSE r.akept
        n == Min(ahead - pos, read_size - r.got)
        got == r.got + n
        gkept == r.gkept + KeptIn(pos, n, akept)
    IN  /\ r.rpc = "read"
        /\ \E ok \in BOOLEAN :
              runs' = IF empty /\ (~ok \/ filled = 0)
                      THEN [runs EXCEPT ![i].rpc = "error"]
                      ELSE IF got < read_size
                      THEN [runs EXCEPT ![i].ahead = ahead,
                                        ![i].akept = akept,
                                        ![i].got = got,
                                        ![i].gkept = gkept]
                      ELSE [runs EXCEPT
                               ![i].buf = [src |-> r.pathname, off |-> off,
                                           len |-> read_size, kept |-> gkept],
                               ![i].ahead = ahead,
                               ![i].akept = akept,
                               ![i].got = 0,
                               ![i].gkept = 0,
                               ![i].remain = r.remain - read_size,
                               ![i].rpc = "send",
                               ![i].lateReads =
                                   IF r.alive THEN @ ELSE @ + 1]
        /\ UNCHANGED <<file_entries, fs, inbox, batch, seen>>

ReaderSend(i) ==
    LET r == runs[i]
    IN  /\ r.rpc = "send"
        /\ IF r.hpc \in HasherExited
           THEN runs' = [runs EXCEPT ![i].rpc = "disconnected"]
           ELSE /\ Len(r.queue) < QueueCap
                /\ runs' = [runs EXCEPT
                               ![i].queue = Append(@, r.buf),
                               ![i].sent = Append(@, r.buf),
                               ![i].buf = NoBuf,
                               ![i].rpc = LoopTest(r.remain)]
        /\ UNCHANGED <<file_entries, fs, inbox, batch, seen>>

(***************************************************************************)
(* The hasher stage.                                                       *)
(***************************************************************************)
HasherRecv(i) ==
    LET r == runs[i]
    IN  /\ r.hpc = "recv"
        /\ IF r.queue # <<>>
           THEN runs' = [runs EXCEPT ![i].data = Head(r.queue),
                                     ![i].queue = Tail(r.queue),
                                     ![i].hpc = "fold"]
           ELSE /\ r.rpc \in ReaderExited
                /\ runs' = [runs EXCEPT ![i].hpc = "final"]
        /\ UNCHANGED <<file_entries, fs, inbox, batch, seen>>

\* Digest::update, the sum and output.try_send of the Calculating event;
\* at "park" the try_send has counted the event and parks the sender
Fold(r, counted) ==
    LET sum == r.sum + r.data.len
        sent == TrySend(r, counted)
        event == FileEntry(r.pathname, Calculating(Progress(sum, r.filesize)))
    IN  [r EXCEPT
            !.hasher = DigestUpdate(r.hasher, r.data),
            !.sum = sum,
            !.data = NoBuf,
            !.lateFolds = IF r.alive THEN @ ELSE @ + 1,
            !.output = IF sent = "ok" THEN Append(@, event) ELSE @,
            !.msg = IF sent = "park" THEN <<event>> ELSE @,
            !.popped = IF sent \in {"ok", "park"} THEN counted ELSE @,
            !.hpc = IF sent = "disconnected" THEN "disconnected"
                    ELSE IF sent = "park" THEN "park"
                    ELSE "recv"]

HasherFold(i) ==
    /\ runs[i].hpc \in {"fold", "park"}
    /\ \E counted \in Counted(runs[i]) :
          runs' = [runs EXCEPT ![i] =
                      IF runs[i].hpc = "park" THEN Park(runs[i], "recv")
                      ELSE Fold(runs[i], counted)]
    /\ UNCHANGED <<file_entries, fs, inbox, batch, seen>>

\* output.try_send of the Finished event; at "final_park" the try_send has
\* counted the event and parks the sender
Finish(r, counted) ==
    LET sent == TrySend(r, counted)
        event == FileEntry(r.pathname, Finished(HashHex(r.hasher)))
    IN  [r EXCEPT
            !.output = IF sent = "ok" THEN Append(@, event) ELSE @,
            !.msg = IF sent = "park" THEN <<event>> ELSE @,
            !.popped = IF sent \in {"ok", "park"} THEN counted ELSE @,
            !.fin = IF sent = "park" THEN "ok" ELSE sent,
            !.hpc = IF sent = "park" THEN "final_park" ELSE "finish"]

HasherFinish(i) ==
    /\ runs[i].hpc \in {"final", "final_park"}
    /\ \E counted \in Counted(runs[i]) :
          runs' = [runs EXCEPT ![i] =
                      IF runs[i].hpc = "final_park"
                      THEN Park(runs[i], "finish")
                      ELSE Finish(runs[i], counted)]
    /\ UNCHANGED <<file_entries, fs, inbox, batch, seen>>

(***************************************************************************)
(* Specifications.  Spec is the application over two small files and a     *)
(* directory.  SpecPipe follows one dropped file of any length up to one   *)
(* that overfills the hand-off queue: its first state is the state after   *)
(* FileDropped("a"), and no further file is dropped.                       *)
(***************************************************************************)
PipeSizes ==
    {0, 1, ChunkSize, ChunkSize + 1, OutputBuffer * ChunkSize,
     PipeChunks * ChunkSize}

\* the lengths followed under fairness: up to the one at which the reader
\* waits on a full hand-off queue while the hasher holds a chunk
FairSizes ==
    {0, 1, ChunkSize, ChunkSize + 1, OutputBuffer * ChunkSize,
     FairChunks * ChunkSize}

Init ==
    /\ file_entries = <<>>
    /\ runs = <<>>
    /\ inbox = <<>>
    /\ batch = -1
    /\ seen = NoneSeen
    /\ fs = [p \in Paths |-> IF p = "a" THEN RegularFile(SmallLen)
                              ELSE IF p = "b" THEN RegularFile(0)
                              ELSE Directory]

\* the state after FileDropped("a") and subscription(), "a" a regular file
\* of one of the lengths sizes or a symbolic link
Dropped(sizes) ==
    /\ file_entries = <<FileEntry("a", Idle)>>
    /\ runs = <<NewRun("a")>>
    /\ inbox = <<>>
    /\ batch = -1
    /\ seen = NoneSeen
    /\ \E f \in {RegularFile(n) : n \in sizes} \cup {SymLink(ChunkSize)} :
          fs = [p \in Paths |-> IF p = "a" THEN f ELSE Directory]

InitPipe == Dropped(PipeSizes)

InitFair == Dropped(FairSizes)

\* Bound of the model: a state in which the streams subscription() asks for
\* make more than n runs is reached and taken no further, by any action.
WithinRuns(n) == Len(Track(file_entries, runs)) <= n

Pipeline(n) ==
    \/ WithinRuns(n) /\ \E i \in 1..Len(runs) : StreamNext(i)
    \/ WithinRuns(n) /\ \E i \in 1..Len(runs) : StreamErr(i)
    \/ WithinRuns(n) /\ \E i \in 1..Len(runs) : HashOpen(i)
    \/ WithinRuns(n) /\ \E i \in 1..Len(runs) : HashFirstSend(i)
    \/ WithinRuns(n) /\ \E i \in 1..Len(runs) : ReaderRead(i)
    \/ WithinRuns(n) /\ \E i \in 1..Len(runs) : ReaderSend(i)
    \/ WithinRuns(n) /\ \E i \in 1..Len(runs) : HasherRecv(i)
    \/ WithinRuns(n) /\ \E i \in 1..Len(runs) : HasherFold(i)
    \/ WithinRuns(n) /\ \E i \in 1..Len(runs) : HasherFinish(i)

Runtime(n) ==
    \/ WithinRuns(n) /\ ClearHistory
    \/ WithinRuns(n) /\ CalculateProgress
    \/ WithinRuns(n) /\ TrackSubscription
    \/ Pipeline(n)

Next ==
    \/ WithinRuns(MaxRuns) /\ \E pathname \in Paths : FileDropped(pathname)
    \/ Runtime(MaxRuns)

NextPipe == Runtime(MaxRuns)

Spec == Init /\ [][Next]_vars
SpecPipe == InitPipe /\ [][NextPipe]_vars

(***************************************************************************)
(* The two stages run on blocking-pool threads of their own: each takes    *)
(* its next step whenever it can, every read returning included.  Nothing  *)
(* is assumed of the consumer, which may stop taking events.  The files    *)
(* are those of FairSizes.                                                 *)
(***************************************************************************)
\* SpecPipe drops no further file: its runs are the one InitPipe starts
PipeRuns == {1}

ReaderStage(i) == i \in 1..Len(runs) /\ (ReaderRead(i) \/ ReaderSend(i))

HasherStage(i) ==
    i \in 1..Len(runs) /\ (HasherRecv(i) \/ HasherFold(i) \/ HasherFinish(i))

SpecPipeFair ==
    /\ InitFair
    /\ [][NextPipe]_vars
    /\ \A i \in PipeRuns :
          WF_vars(ReaderStage(i)) /\ WF_vars(HasherStage(i))

(***************************************************************************)
(* SpecLate follows the end of the pipeline of a file of LateChunks MiB    *)
(* and one byte: its first state is the one the pipeline is in when all    *)
(* but the last full chunk and the last byte went through both stages and  *)
(* update has applied every event emitted so far.                          *)
(***************************************************************************)
LateSize == LateChunks * ChunkSize + 1
LateDone == (LateChunks - 1) * ChunkSize

LateRun ==
    [NewRun("a") EXCEPT
        !.pc = "spawned",
        !.filesize = LateSize,
        !.rpc = "read",
        !.remain = LateSize - LateDone,
        !.ahead = Min(LateSize, ((LateDone + BufCap - 1) \div BufCap) * BufCap),
        !.akept = LateSize,
        !.hpc = "recv",
        !.hasher = <<[src |-> "a", lo |-> 0, hi |-> LateDone]>>,
        !.sum = LateDone,
        !.sent = [k \in 1..(LateChunks - 1) |->
                     [src |-> "a", off |-> (k - 1) * ChunkSize,
                      len |-> ChunkSize, kept |-> ChunkSize]],
        !.applied = Calculating(Progress(LateDone, LateSize))]

InitLate ==
    /\ file_entries =
           <<FileEntry("a", Calculating(Progress(LateDone, LateSize)))>>
    /\ runs = <<LateRun>>
    /\ inbox = <<>>
    /\ batch = -1
    /\ seen = NoneSeen
    /\ fs = [p \in Paths |-> IF p = "a" THEN RegularFile(LateSize)
                              ELSE Directory]

NextLate ==
    \/ ClearHistory
    \/ CalculateProgress
    \/ TrackSubscription
    \/ \E i \in PipeRuns : StreamNext(i)
    \/ \E i \in PipeRuns : ReaderStage(i)
    \/ \E i \in PipeRuns : HasherStage(i)

SpecLate == InitLate /\ [][NextLate]_vars

(***************************************************************************)
(* SpecResize is SpecPipe over a regular file whose length another process *)
(* changes at any time: a truncation drops the end of the content, an      *)
(* extension adds zero bytes to it (set_len).                              *)
(***************************************************************************)
ResizeSizes == {1, ChunkSize + 1}

FileResize(pathname) ==
    /\ fs[pathname].kind = "file"
    /\ \E n \in ResizeSizes :
          /\ n # fs[pathname].len
          /\ fs' = [fs EXCEPT ![pathname] =
                        [RegularFile(n) EXCEPT !.kept = Min(n, fs[pathname].kept)]]
    /\ UNCHANGED <<file_entries, runs, inbox, batch, seen>>

InitResize ==
    /\ file_entries = <<FileEntry("a", Idle)>>
    /\ runs = <<NewRun("a")>>
    /\ inbox = <<>>
    /\ batch = -1
    /\ seen = NoneSeen
    /\ \E n \in ResizeSizes :
          fs = [p \in Paths |-> IF p = "a" THEN RegularFile(n) ELSE Directory]

NextResize ==
    \/ NextPipe
    \/ \E pathname \in Paths : FileResize(pathname)

SpecResize == InitResize /\ [][NextResize]_vars

(***************************************************************************)
(* SpecStale is the application from a state it reaches with its third    *)
(* run: the empty file b was dropped, cleared and dropped again twice.     *)
(* The first run was dropped with its Finished event in flight, the second *)
(* with its Calculating event in flight behind it, and the runtime has     *)
(* just started the third run for the entry of b.                          *)
(***************************************************************************)
StaleFinishedRun ==
    [NewRun("b") EXCEPT
        !.alive = FALSE,
        !.pc = "spawned",
        !.rpc = "finish",
        !.hpc = "finish",
        !.fin = "ok",
        !.applied = Calculating(ProgressZero)]

StaleCalculatingRun ==
    [NewRun("b") EXCEPT
        !.alive = FALSE,
        !.pc = "spawned",
        !.rpc = "finish",
        !.hpc = "finish",
        !.fin = "disconnected"]

InitStale ==
    /\ file_entries = <<FileEntry("b", Idle)>>
    /\ runs = <<StaleFinishedRun, StaleCalculatingRun, NewRun("b")>>
    /\ inbox = <<[run |-> 1, ok |-> TRUE,
                  entry |-> FileEntry("b", Finished(HashHex(Sha256New)))],
                 [run |-> 2, ok |-> TRUE,
                  entry |-> FileEntry("b", Calculating(ProgressZero))]>>
    /\ batch = -1
    /\ seen = NoneSeen
    /\ fs = [p \in Paths |-> IF p = "a" THEN RegularFile(SmallLen)
                              ELSE IF p = "b" THEN RegularFile(0)
                              ELSE Directory]

NextStale ==
    \/ WithinRuns(StaleRuns) /\ \E pathname \in Paths : FileDropped(pathname)
    \/ Runtime(StaleRuns)

SpecStale == InitStale /\ [][NextStale]_vars

(***************************************************************************)
(* Properties.                                                             *)
(***************************************************************************)
Runs == 1..Len(runs)

IsCalculating(entry) == entry.state.tag = "Calculating"
IsFinished(entry) == entry.state.tag = "Finished"

\* the events of run i that update has still to see, oldest first: those
\* taken from the stream, those in the output channel and the one a
\* try_send is about to push
Pending(i) ==
    [k \in 1..Len(SelectSeq(inbox, LAMBDA m : m.ok /\ m.run = i)) |->
        SelectSeq(inbox, LAMBDA m : m.ok /\ m.run = i)[k].entry]
    \o runs[i].output \o runs[i].msg

\* C1: a file whose reads all succeed and whose consumer stays connected
\* gets its Finished event, whatever the consumer has taken so far.
C1_FinishedAlwaysDelivered ==
    \A i \in Runs :
        (runs[i].alive /\ runs[i].rpc = "finish" /\ runs[i].hpc = "finish")
            => runs[i].fin = "ok"

\* C2: after a failed chunk read no Finished event is emitted for the file.
C2_NoFinishedAfterReadError ==
    \A i \in Runs : runs[i].rpc = "error" => runs[i].fin # "ok"

\* C3: every Finished event carries the digest of the file's full content.
C3_FinishedIsContentDigest ==
    \A i \in Runs : \A k \in 1..Len(runs[i].output) :
        IsFinished(runs[i].output[k])
            => runs[i].output[k].state.hash = ContentDigest(runs[i].pathname)

\* C4: the buffers the reader sends are consecutive ranges of the file from
\* offset 0, each of length min(1 MiB, bytes remaining), none empty; the
\* reader reads only while bytes remain, and when it finishes the lengths
\* sum to the captured size.
SentEnd(sent) ==
    IF sent = <<>> THEN 0 ELSE sent[Len(sent)].off + sent[Len(sent)].len

C4_ReaderChunks ==
    \A i \in Runs :
        LET r == runs[i]
        IN  /\ \A k \in 1..Len(r.sent) :
                  /\ r.sent[k].src = r.pathname
                  /\ r.sent[k].off = SentEnd(SubSeq(r.sent, 1, k - 1))
                  /\ r.sent[k].len = Min(ChunkSize, r.filesize - r.sent[k].off)
                  /\ 0 < r.sent[k].len
                  /\ r.sent[k].len <= ChunkSize
            /\ r.rpc = "read" => 0 < r.remain
            /\ (r.pc = "spawned" /\ r.remain = 0)
                  => r.rpc \in {"send", "finish", "disconnected"}
            /\ r.rpc = "finish"
                  => r.remain = 0 /\ SentEnd(r.sent) = r.filesize

C4_Witness ==
    \E i \in Runs :
        /\ runs[i].rpc = "finish"
        /\ Len(runs[i].sent) = 2
        /\ runs[i].sent[2].len = 1

\* C5: the progress values update applies from one run are each within
\* [0, 100] and never decrease, and the byte count never exceeds the
\* captured size.
C5_Bounded ==
    \A i \in Runs :
        /\ runs[i].sum <= runs[i].filesize
        /\ \A k \in 1..Len(Pending(i)) :
              IsCalculating(Pending(i)[k]) => InRange(Pending(i)[k].state.progress)
        /\ runs[i].applied.tag = "Calculating" => InRange(runs[i].applied.progress)

C5_Step ==
    \A i \in Runs :
        (i <= Len(runs') /\ runs[i].applied.tag = "Calculating"
                         /\ runs'[i].applied.tag = "Calculating")
            => /\ InRange(runs[i].applied.progress)
               /\ InRange(runs'[i].applied.progress)
               /\ ProgressLeq(runs[i].applied.progress,
                              runs'[i].applied.progress)

C5_ProgressMonotone == []C5_Bounded /\ [][C5_Step]_vars

C5_Witness ==
    \E i \in Runs :
        /\ runs[i].applied.tag = "Calculating"
        /\ runs[i].applied.progress # F32Zero
        /\ runs[i].applied.progress # F32Hundred
        /\ runs[i].output # <<>>

\* C6 as claimed: for a captured size of 0 no Calculating event precedes the
\* Finished event, which carries the digest of the empty input, and no
\* progress value is a quotient by zero.
NoQuotientByZero ==
    \A i \in Runs : \A k \in 1..Len(Pending(i)) :
        IsCalculating(Pending(i)[k]) => ~IsNaN(Pending(i)[k].state.progress)

EmptyFinished(i) ==
    /\ \A k \in 1..Len(Pending(i)) :
          IsFinished(Pending(i)[k])
              => Pending(i)[k].state.hash = HashHex(Sha256New)
    /\ (runs[i].hpc = "finish" /\ runs[i].fin # "disconnected")
          => runs[i].fin = "ok"

C6_NoCalculatingForEmpty ==
    /\ NoQuotientByZero
    /\ \A i \in Runs :
          (runs[i].pc = "spawned" /\ runs[i].filesize = 0)
              => /\ EmptyFinished(i)
                 /\ \A k \in 1..Len(Pending(i)) : ~IsCalculating(Pending(i)[k])

\* C6 amended: for a captured size of 0 the only Calculating event is the
\* initial one of progress 0, the hasher folds nothing, the final send finds
\* room and carries the digest of the empty input, and no progress value is
\* a quotient by zero.
C6_EmptyFile ==
    /\ NoQuotientByZero
    /\ \A i \in Runs :
          (runs[i].pc = "spawned" /\ runs[i].filesize = 0)
              => /\ EmptyFinished(i)
                 /\ runs[i].sum = 0
                 /\ runs[i].hasher = Sha256New
                 /\ runs[i].hpc \in {"recv", "final", "finish"}
                 /\ \A k \in 1..Len(Pending(i)) :
                       IsCalculating(Pending(i)[k])
                           => Pending(i)[k].state.progress = ProgressZero
                 /\ \A k \in 2..Len(runs[i].output) :
                       IsFinished(runs[i].output[k])

C6_Witness ==
    \E i \in Runs :
        /\ runs[i].filesize = 0
        /\ runs[i].fin = "ok"
        /\ Len(runs[i].output) = 2

\* C9 as claimed: once the receiver is dropped nothing more is emitted, the
\* hasher folds at most one further chunk, the reader reads at most the
\* queue capacity plus one further chunks, and a first send that finds the
\* receiver gone starts no worker.
DisconnectStops(reads) ==
    \A i \in Runs :
        /\ ~runs[i].alive => runs[i].output = <<>>
        /\ runs[i].lateFolds <= 1
        /\ runs[i].lateReads <= reads
        /\ runs[i].pc \in {"open", "send", "failed"}
              => runs[i].rpc = "idle" /\ runs[i].hpc = "idle"

C9_ReaderStopsWithinCapPlusOne == DisconnectStops(QueueCap + 1)

\* C9 amended: as claimed, with the reader reading at most the queue
\* capacity plus two further chunks.
C9_DisconnectStops == DisconnectStops(QueueCap + 2)

C9_Witness ==
    \E i \in Runs :
        /\ ~runs[i].alive
        /\ runs[i].lateReads = QueueCap + 2
        /\ runs[i].lateFolds = 1
        /\ runs[i].rpc = "disconnected"
        /\ runs[i].hpc = "disconnected"

\* C7: file_entries holds at most one entry per pathname, subscription()
\* requests at most one stream per pathname, at most one stream per
\* pathname is held at a time and carries at most one Finished event, the
\* entry of a pathname receives at most one Finished event for as long as
\* it is tracked, and a FileDropped for a tracked pathname changes neither
\* the entries nor the runs, nor the streams the runtime holds once it has
\* asked subscription().
Distinct(seq) ==
    \A j, k \in 1..Len(seq) : j # k => seq[j] # seq[k]

C7_Unique ==
    /\ Distinct([k \in 1..Len(file_entries) |-> file_entries[k].pathname])
    /\ Distinct(subscription(file_entries))
    /\ \A i, j \in Runs :
          (i # j /\ runs[i].alive /\ runs[j].alive)
              => runs[i].pathname # runs[j].pathname
    /\ \A i \in Runs :
          Cardinality({k \in 1..Len(runs[i].output) :
                          IsFinished(runs[i].output[k])}) <= 1
    /\ \A pathname \in Paths : seen[pathname].finished <= 1

C7_Redrop ==
    \A pathname \in Paths :
        (Tracked(file_entries, pathname) /\ FileDropped(pathname))
            => /\ UNCHANGED <<file_entries, runs>>
               /\ Track(file_entries', runs') = Track(file_entries, runs)

C7_OnePipelinePerPath == []C7_Unique /\ [][C7_Redrop]_vars

\* C8: once an entry is Finished, subscription() does not request its
\* pathname again for as long as the entry stays tracked, and a FileDropped
\* for it changes nothing.
StateOf(entries, pathname) == entries[FindEntry(entries, pathname)].state

C8_Step ==
    \A pathname \in Paths :
        (/\ Tracked(file_entries, pathname)
         /\ StateOf(file_entries, pathname).tag = "Finished"
         /\ Tracked(file_entries', pathname))
            => /\ pathname \notin Requested(file_entries')
               /\ FileDropped(pathname) => UNCHANGED <<file_entries, runs>>

C8_FinishedNeverRequestedAgain == [][C8_Step]_vars

\* C10: every event carries the pathname of the run that produced it, an
\* update changes only the entry of the event's pathname, and the events of
\* one run are applied in the order the run emitted them.
C10_Tagged ==
    /\ \A i \in Runs : \A k \in 1..Len(runs[i].output) :
          runs[i].output[k].pathname = runs[i].pathname
    /\ \A k \in 1..Len(inbox) :
          /\ inbox[k].run \in Runs
          /\ inbox[k].entry.pathname = runs[inbox[k].run].pathname

Before(s, t) ==
    \/ s.tag = "Idle" /\ t.tag # "Idle"
    \/ /\ s.tag = "Calculating"
       /\ t.tag = "Calculating"
       /\ ~ProgressLeq(t.progress, s.progress)
    \/ s.tag = "Calculating" /\ t.tag = "Finished"

C10_Step ==
    /\ Len(file_entries') = Len(file_entries)
          => \A k \in 1..Len(file_entries) :
                file_entries'[k] # file_entries[k]
                    => /\ inbox # <<>>
                       /\ Head(inbox).ok
                       /\ file_entries[k].pathname = Head(inbox).entry.pathname
                       /\ file_entries'[k] = Head(inbox).entry
    /\ \A i \in Runs :
          (i <= Len(runs') /\ runs'[i].applied # runs[i].applied)
              => Before(runs[i].applied, runs'[i].applied)

C10_Isolation == []C10_Tagged /\ [][C10_Step]_vars

C10_Witness ==
    \E i, j \in Runs :
        /\ runs[i].pathname = "a"
        /\ runs[i].rpc \in {"read", "error"}
        /\ Tracked(file_entries, "a")
        /\ IsCalculating(file_entries[FindEntry(file_entries, "a")])
        /\ runs[j].pathname = "b"
        /\ Tracked(file_entries, "b")
        /\ IsFinished(file_entries[FindEntry(file_entries, "b")])

\* C11: a run whose open or metadata call failed has emitted no event and
\* started no worker; update leaves file_entries unchanged on the Err
\* message; and once a run for the entry of a pathname has failed so, no
\* further run is started for that pathname for as long as the entry stays
\* tracked.
C11_Silent ==
    /\ \A i \in Runs :
          /\ runs[i].err => runs[i].pc = "failed"
          /\ runs[i].pc \in {"open", "failed"}
                => /\ Pending(i) = <<>>
                   /\ runs[i].applied = Idle
                   /\ runs[i].sent = <<>>
                   /\ runs[i].rpc = "idle"
                   /\ runs[i].hpc = "idle"
    /\ \A k \in 1..Len(inbox) :
          ~inbox[k].ok => runs[inbox[k].run].pc = "failed"

C11_Step ==
    /\ (inbox # <<>> /\ ~Head(inbox).ok /\ CalculateProgress)
          => file_entries' = file_entries
    /\ \A pathname \in Paths :
          (/\ seen[pathname].failed
           /\ Tracked(file_entries, pathname)
           /\ Tracked(file_entries', pathname))
              => \A j \in (Len(runs) + 1)..Len(runs') :
                    runs'[j].pathname # pathname

C11_OpenFailure == []C11_Silent /\ [][C11_Step]_vars

\* C12: when every stage takes its next step whenever it can, both stages
\* of a started pipeline eventually exit, whether the consumer drains the
\* output channel, stops draining it, or disconnects.
WorkersExited(i) ==
    /\ i \in Runs
    /\ runs[i].rpc \in ReaderExited
    /\ runs[i].hpc \in {"finish", "disconnected"}

C12_WorkersExit ==
    \A i \in PipeRuns :
        (i \in Runs /\ runs[i].pc = "spawned") ~> WorkersExited(i)

C12_Witness ==
    \E i \in Runs :
        /\ runs[i].alive
        /\ runs[i].filesize = FairChunks * ChunkSize
        /\ runs[i].rpc = "finish"
        /\ runs[i].hpc = "finish"
        /\ runs[i].fin = "full"
        /\ file_entries[1].state = Idle

\* C13: until the first send has handed Calculating with progress 0 to the
\* output channel, a run has emitted nothing and its reader has read
\* nothing; the first event update receives from a run is that Calculating
\* with progress 0, and it is the oldest event of a run nothing was taken of.
IsInitialEvent(state) ==
    state.tag = "Calculating" /\ state.progress = F32Zero

C13_NothingBeforeFirstSend ==
    \A i \in Runs :
        /\ runs[i].pc # "spawned"
              => /\ Pending(i) = <<>>
                 /\ runs[i].applied = Idle
                 /\ runs[i].rpc = "idle"
                 /\ runs[i].buf = NoBuf
                 /\ runs[i].sent = <<>>
                 /\ runs[i].lateReads = 0
        /\ (runs[i].pc = "spawned" /\ runs[i].alive /\ runs[i].applied = Idle)
              => /\ Pending(i) # <<>>
                 /\ IsInitialEvent(Pending(i)[1].state)

C13_Step ==
    \A i \in Runs :
        /\ (i <= Len(runs') /\ runs[i].applied = Idle
                            /\ runs'[i].applied # Idle)
              => IsInitialEvent(runs'[i].applied)
        /\ (i <= Len(runs') /\ runs[i].pc # "spawned"
                            /\ runs'[i].output # runs[i].output)
              => /\ runs[i].rpc = "idle"
                 /\ runs[i].output = <<>>
                 /\ Len(runs'[i].output) = 1
                 /\ IsInitialEvent(runs'[i].output[1].state)

C13_InitialEventFirst == []C13_NothingBeforeFirstSend /\ [][C13_Step]_vars

C13_Witness ==
    \E i \in Runs :
        /\ IsInitialEvent(runs[i].applied)
        /\ runs[i].rpc = "read"
        /\ runs[i].sent = <<>>
        /\ runs[i].remain = runs[i].filesize

\* C14: of the Calculating events one run emitted, each carries a percent
\* strictly greater than the one emitted before it.
Emitted(i) ==
    (IF runs[i].applied = Idle THEN <<>> ELSE <<runs[i].applied>>)
    \o [k \in 1..Len(Pending(i)) |-> Pending(i)[k].state]

C14_StrictlyGreater ==
    \A i \in Runs : \A k \in 1..(Len(Emitted(i)) - 1) :
        (Emitted(i)[k].tag = "Calculating"
            /\ Emitted(i)[k + 1].tag = "Calculating")
            => ~ProgressLeq(Emitted(i)[k + 1].progress, Emitted(i)[k].progress)

\* C15: the captured size of a run never changes, and a run whose reads all
\* succeeded sends Finished only while the length of its file equals the
\* captured size.
C15_Step ==
    \A i \in Runs :
        i <= Len(runs')
            => /\ runs[i].pc \in {"send", "spawned"}
                     => runs'[i].filesize = runs[i].filesize
               /\ (runs[i].rpc = "finish" /\ runs[i].fin # "ok"
                                            /\ runs'[i].fin = "ok")
                     => fs[runs[i].pathname].len = runs[i].filesize

C15_ResizeNeverFinishes == [][C15_Step]_vars

\* C16: for a pathname is_file() accepts, the size a run captured equals the
\* length of the content the run opened.
C16_CapturedSizeIsContentLength ==
    \A i \in Runs :
        (is_file(runs[i].pathname) /\ runs[i].pc \in {"send", "spawned"})
            => runs[i].filesize = fs[runs[i].pathname].len

\* C17: once the runtime has asked subscription(), a stream is held only
\* for a requested pathname; ClearHistory on a non-empty list empties it
\* and touches no run, after which nothing is requested; an event for an
\* untracked pathname leaves file_entries unchanged; neither update nor the
\* tracking of the streams touches the stages of a run; and the stages of a
\* run whose stream was dropped leave their work only at a failed send.
StagesOf(r) ==
    [pc |-> r.pc, filesize |-> r.filesize, queue |-> r.queue, rpc |-> r.rpc,
     remain |-> r.remain, buf |-> r.buf, hpc |-> r.hpc, hasher |-> r.hasher,
     sum |-> r.sum, data |-> r.data]

C17_HeldIsRequested ==
    batch = -1
        => \A i \in Runs :
              runs[i].alive => runs[i].pathname \in Requested(file_entries)

C17_Step ==
    /\ (ClearHistory /\ file_entries # <<>>)
          => /\ file_entries' = <<>>
             /\ Requested(file_entries') = {}
             /\ runs' = runs
    /\ TrackSubscription
          => /\ Len(runs') >= Len(runs)
             /\ \A i \in 1..Len(runs') :
                   runs'[i].alive
                       => runs'[i].pathname \in Requested(file_entries')
    /\ (CalculateProgress
            /\ ~Tracked(file_entries, Head(inbox).entry.pathname))
          => file_entries' = file_entries
    /\ (ClearHistory \/ CalculateProgress \/ TrackSubscription)
          => \A i \in Runs : StagesOf(runs'[i]) = StagesOf(runs[i])
    /\ \A i \in Runs :
          (i <= Len(runs') /\ ~runs[i].alive)
              => /\ (runs[i].pc = "send" /\ runs'[i].pc # "send")
                       => runs'[i].pc = "failed"
                 /\ (runs[i].hpc = "fold" /\ runs'[i].hpc # "fold")
                       => runs'[i].hpc = "disconnected"
                 /\ (runs[i].hpc = "final" /\ runs'[i].hpc # "final")
                       => runs'[i].fin = "disconnected"

C17_ClearStopsByDisconnectOnly == []C17_HeldIsRequested /\ [][C17_Step]_vars

C17_Witness ==
    /\ file_entries = <<>>
    /\ inbox = <<>>
    /\ \E i \in Runs :
          /\ ~runs[i].alive
          /\ runs[i].applied # Idle
          /\ runs[i].hpc = "disconnected"
          /\ runs[i].lateFolds = 1

\* C18: while an entry stays in file_entries its state only moves forward:
\* Idle, then Calculating with progress that never decreases, then Finished.
C18_Step ==
    \A pathname \in Paths :
        (Tracked(file_entries, pathname) /\ Tracked(file_entries', pathname))
            => \/ StateOf(file_entries', pathname) = StateOf(file_entries, pathname)
               \/ Before(StateOf(file_entries, pathname),
                         StateOf(file_entries', pathname))

C18_StateOnlyForward == [][C18_Step]_vars

\* C19: the hand-off queue holds at most 10 buffers, and they are the last
\* buffers the reader sent, in the order sent; the hasher has taken and
\* folded the buffers before them in that order; counting the buffer the
\* reader holds while its send is blocked, at most 11 chunks are read and
\* not yet taken by the hasher (at most 12 are read and not yet folded).
C19_QueueBounded ==
    \A i \in Runs :
        LET r == runs[i]
            n == Len(r.queue)
            held == IF r.rpc = "send" THEN 1 ELSE 0
            taken == Len(r.sent) - n
            folded == IF r.hpc = "fold" THEN taken - 1 ELSE taken
        IN  /\ n <= 10
            /\ r.queue = SubSeq(r.sent, taken + 1, Len(r.sent))
            /\ r.hpc = "fold" => r.data = r.sent[taken]
            /\ r.sum = SentEnd(SubSeq(r.sent, 1, folded))
            /\ r.hasher = IF r.sum = 0 THEN Sha256New
                          ELSE <<[src |-> r.pathname, lo |-> 0, hi |-> r.sum]>>
            /\ (Len(r.sent) + held) - taken <= 11
            /\ (Len(r.sent) + held) - folded <= 12

C19_Witness ==
    \E i \in Runs :
        /\ Len(runs[i].queue) = 10
        /\ runs[i].rpc = "send"
        /\ runs[i].hpc = "fold"
        /\ runs[i].alive

\* C20: title gives the same result for every ordering of the entries of
\* file_entries.
Reordered(entries, perm) == [k \in 1..Len(entries) |-> entries[perm[k]]]

C20_TitleOrderIndependent ==
    \A perm \in Permutations(1..Len(file_entries)) :
        title(Reordered(file_entries, perm)) = title(file_entries)

====
